---- MODULE Spec2Model ----
(***************************************************************************)
(* State-machine model of AutomationChromecast (src/index.js): discovery   *)
(* of the named device, supervision of the control channel, tracking of    *)
(* the application / media session and projection of the casting state.    *)
(*                                                                         *)
(* Every method of the class is an operator from an instance state (a      *)
(* record of the object's fields, the runtime's timers and listeners, and  *)
(* the calls made to the collaborators so far in the running handler) to   *)
(* the state it leaves.  Every event the runtime can deliver (an mdns      *)
(* announcement, a timer, a channel event, a status push, an accessory     *)
(* command) is one action running the whole handler.                       *)
(*                                                                         *)
(* Collaborators (mdns, castv2-client, the accessory framework) are the    *)
(* environment.  A closed channel emits no further event and completes no  *)
(* outstanding request.  A library call the source wraps in try/catch may  *)
(* throw; one it does not wrap is taken to return.  The completion of a    *)
(* setVolume command only calls the accessory callback and touches no      *)
(* state, so it is recorded with the command.  Log lines are not modelled. *)
(***************************************************************************)
EXTENDS Integers, Sequences, FiniteSets, TLC

\* ------------------------------------------------------------------ bounds
MaxBrowsers == 2        \* mdns browsers running at once
MaxPendingJoins == 1    \* join requests whose completion is outstanding
MaxOrphanTimers == 1    \* live timers whose handle the object no longer holds
MaxRetries == 2         \* Spec: channel failures stop once the counter has reached this
MaxCancelledRetries == 1 \* pending retries superseded by discovery between two successes

\* --------------------------------------------------------------- constants
ReconnectBackoff == 150 \* src/index.js:167

\* ------------------------------------------------------------------ values
Null == "null"
Undefined == "undefined"

NoApp == [sessionId |-> Null, transportId |-> Null]
NoMedia == [sessionId |-> Null]

\* switchOffDelay values of the configuration (config.switchOffDelay || 0)
SwitchOffDelays == {0, 500}

\* Friendly names are sequences of letters.
UpperOf == [c \in {"l", "r", "k"} |-> CASE c = "l" -> "L" [] c = "r" -> "R" [] c = "k" -> "K"]
Letters == {"l", "r", "k", "L", "R", "K"}

\* String.prototype.toLowerCase, letter by letter
LowerLetter(c) == IF \E l \in DOMAIN UpperOf : UpperOf[l] = c
                  THEN CHOOSE l \in DOMAIN UpperOf : UpperOf[l] = c
                  ELSE c
toLowerCase(str) == [i \in DOMAIN str |-> LowerLetter(str[i])]

\* config.chromecastDeviceName
TargetNames == {<<"L", "r">>}

\* mdns serviceUp payloads: txtRecord.fn / md / id, addresses, port
Announcements ==
  { [fn |-> <<"L", "R">>, addresses |-> <<"10.0.0.5">>, port |-> "8009",
     md |-> "Chromecast", id |-> "id-1"],
    [fn |-> <<"l", "r">>, addresses |-> <<"10.0.0.7", "10.0.0.5">>, port |-> "8010",
     md |-> Undefined, id |-> "id-2"],
    [fn |-> <<"K", "r">>, addresses |-> <<"10.0.0.9">>, port |-> "8009",
     md |-> "Chromecast", id |-> "id-3"],
    [fn |-> <<"L">>, addresses |-> <<"10.0.0.9">>, port |-> "8009",
     md |-> "Chromecast", id |-> "id-3"] }

\* Receiver status payloads.  A status is a record holding the fields present.
AppA == [sessionId |-> "A", transportId |-> "web-1"]
AppB == [sessionId |-> "B", transportId |-> Undefined]
ApplicationLists == {<<>>, <<AppA>>, <<AppB, AppA>>}
VolumeFields == {[muted |-> FALSE], [level |-> 50, muted |-> FALSE]}
DeviceStatuses ==
  {[applications |-> a, volume |-> v] : a \in ApplicationLists, v \in VolumeFields}
    \cup {[applications |-> a] : a \in ApplicationLists}
    \cup {[volume |-> v] : v \in VolumeFields}
    \cup {[isActiveInput |-> TRUE]}

\* Characteristic.Volume values the accessory framework sets
VolumeTargets == {50}

\* Media status payloads; Undefined is a getStatus reply without a status.
MediaStatuses ==
  {[playerState |-> p] : p \in {"PLAYING", "BUFFERING", "PAUSED", "IDLE"}}
    \cup {[mediaSessionId |-> 1]}
MediaReplies == MediaStatuses \cup {[undefined |-> TRUE]}

BoolStr(b) == IF b THEN "true" ELSE "false"

\* ------------------------------------------------------------------- state
VARIABLES
  chromecastDeviceName,   \* config: advertised name to look for
  switchOffDelay,         \* config: delay of the motion-sensor "off"
  chromecastIp, chromecastPort,
  chromecastClient,       \* Null | "connecting" | "connected" | "closed" (state of the object held)
  isCastingStatus, castingApplication, castingMedia, volume,
  deviceType, deviceId,
  switchOffDelayTimer,    \* Null | "pending" | "dead" (state of the timer the handle names)
  reconnectTimer,         \* Null | "pending" | "dead"
  reconnectCounter,
  orphanOffTimers,        \* live switch-off timers no handle names
  orphanReconnectTimers,  \* live reconnect timers no handle names
  openOrphanClients,      \* channel objects replaced without having been closed
  browsers,               \* running mdns browsers, each with its 30-minute restart timer
  pendingJoins,           \* join requests awaiting their completion callback
  mediaListening,         \* a media handle of the open channel has its status listener
  failures,               \* history: clientDisconnect(true) calls since the last success
  cancelledRetries,       \* history: retry timers cleared while pending since the last success
  switchOn,               \* Characteristic.On of the switch service
  motionDetected,         \* Characteristic.MotionDetected of the motion service
  last                    \* the handler that ran last: [op, arg, out]

progVars == <<chromecastDeviceName, switchOffDelay, chromecastIp, chromecastPort,
              chromecastClient, isCastingStatus, castingApplication, castingMedia,
              volume, deviceType, deviceId, switchOffDelayTimer, reconnectTimer,
              reconnectCounter, orphanOffTimers, orphanReconnectTimers,
              openOrphanClients, browsers, pendingJoins, mediaListening,
              failures, cancelledRetries, switchOn, motionDetected>>
vars == <<progVars, last>>

\* The instance as one record; out collects the running handler's calls.
This ==
  [chromecastDeviceName |-> chromecastDeviceName, switchOffDelay |-> switchOffDelay,
   chromecastIp |-> chromecastIp, chromecastPort |-> chromecastPort,
   chromecastClient |-> chromecastClient, isCastingStatus |-> isCastingStatus,
   castingApplication |-> castingApplication, castingMedia |-> castingMedia,
   volume |-> volume, deviceType |-> deviceType, deviceId |-> deviceId,
   switchOffDelayTimer |-> switchOffDelayTimer, reconnectTimer |-> reconnectTimer,
   reconnectCounter |-> reconnectCounter, orphanOffTimers |-> orphanOffTimers,
   orphanReconnectTimers |-> orphanReconnectTimers,
   openOrphanClients |-> openOrphanClients, browsers |-> browsers,
   pendingJoins |-> pendingJoins, mediaListening |-> mediaListening,
   failures |-> failures,
   cancelledRetries |-> cancelledRetries, switchOn |-> switchOn,
   motionDetected |-> motionDetected, out |-> <<>>]

\* The handler named op, run on input arg, leaves the instance as t.
Becomes(op, arg, t) ==
  /\ chromecastDeviceName' = t.chromecastDeviceName
  /\ switchOffDelay' = t.switchOffDelay
  /\ chromecastIp' = t.chromecastIp
  /\ chromecastPort' = t.chromecastPort
  /\ chromecastClient' = t.chromecastClient
  /\ isCastingStatus' = t.isCastingStatus
  /\ castingApplication' = t.castingApplication
  /\ castingMedia' = t.castingMedia
  /\ volume' = t.volume
  /\ deviceType' = t.deviceType
  /\ deviceId' = t.deviceId
  /\ switchOffDelayTimer' = t.switchOffDelayTimer
  /\ reconnectTimer' = t.reconnectTimer
  /\ reconnectCounter' = t.reconnectCounter
  /\ orphanOffTimers' = t.orphanOffTimers
  /\ orphanReconnectTimers' = t.orphanReconnectTimers
  /\ openOrphanClients' = t.openOrphanClients
  /\ browsers' = t.browsers
  /\ pendingJoins' = t.pendingJoins
  /\ mediaListening' = t.mediaListening
  /\ failures' = t.failures
  /\ cancelledRetries' = t.cancelledRetries
  /\ switchOn' = t.switchOn
  /\ motionDetected' = t.motionDetected
  /\ last' = [op |-> op, arg |-> arg, out |-> t.out]

\* The bounds hold of the state a handler leaves.
WithinBounds(t) ==
  /\ t.browsers <= MaxBrowsers
  /\ Len(t.pendingJoins) <= MaxPendingJoins
  /\ t.orphanOffTimers <= MaxOrphanTimers
  /\ t.orphanReconnectTimers <= MaxOrphanTimers
  /\ t.openOrphanClients <= MaxOrphanTimers
  /\ t.cancelledRetries <= MaxCancelledRetries

Call(s, c) == [s EXCEPT !.out = Append(@, c)]

\* ----------------------------------------------------------------- methods
\* clearTimeout(handle): a pending timer is cancelled, anything else is left.
clearTimeout(h) == IF h = "pending" THEN "dead" ELSE h

\* handle = setTimeout(...): the timer the handle named, if live, lives on unnamed.
Orphaned(h) == IF h = "pending" THEN 1 ELSE 0

resetClient_leftOpen(s) == s

\* resetClient(), lines 149-158
resetClient(s) ==
  IF s.chromecastClient # Null
  THEN Call([s EXCEPT !.chromecastClient = "closed",
                      !.mediaListening = FALSE,
                      !.pendingJoins = <<>>],
            <<"client.close">>)
  ELSE [s EXCEPT !.chromecastClient = Null]

\* setDefaultProperties(resetIpAndPort, stopReconnecting), lines 72-100
setDefaultProperties(s, resetIpAndPort, stopReconnecting) ==
  LET s1 == IF resetIpAndPort
            THEN [s EXCEPT !.chromecastIp = Null, !.chromecastPort = Null]
            ELSE s
      s2 == resetClient(s1)
      s3 == [s2 EXCEPT !.isCastingStatus = FALSE,
                       !.castingApplication = NoApp,
                       !.castingMedia = NoMedia,
                       !.volume = 0,
                       !.deviceType = Null,
                       !.deviceId = Null,
                       !.orphanOffTimers = @ + Orphaned(s2.switchOffDelayTimer),
                       !.switchOffDelayTimer = Null]
      s4 == IF stopReconnecting /\ s3.reconnectTimer # Null
            THEN Call([s3 EXCEPT !.cancelledRetries = @ + Orphaned(s3.reconnectTimer),
                                 !.reconnectTimer = clearTimeout(@)],
                      <<"clearTimeout", "reconnectTimer", s3.reconnectTimer>>)
            ELSE s3
      s5 == [s4 EXCEPT !.orphanReconnectTimers = @ + Orphaned(s4.reconnectTimer),
                       !.reconnectTimer = Null]
  IN  IF s5.reconnectCounter = 0 THEN [s5 EXCEPT !.reconnectCounter = 0] ELSE s5

\* updateMotionSensor closure, lines 307-310: reads isCastingStatus when it runs
updateMotionSensor(s) ==
  Call([s EXCEPT !.motionDetected = s.isCastingStatus],
       <<"motion.MotionDetected", BoolStr(s.isCastingStatus)>>)

\* setIsCasting(statusBool), lines 294-321
setIsCasting(s, statusBool) ==
  IF statusBool # s.isCastingStatus
  THEN LET s1 == [s EXCEPT !.isCastingStatus = statusBool]
           s2 == Call([s1 EXCEPT !.switchOn = s1.isCastingStatus],
                      <<"switch.On", BoolStr(s1.isCastingStatus)>>)
       IN  IF ~s2.isCastingStatus /\ s2.switchOffDelay # 0
           THEN Call([s2 EXCEPT !.orphanOffTimers = @ + Orphaned(s2.switchOffDelayTimer),
                                !.switchOffDelayTimer = "pending"],
                     <<"setTimeout", "updateMotionSensor">>)
           ELSE updateMotionSensor(
                  IF s2.switchOffDelayTimer # Null
                  THEN Call([s2 EXCEPT !.switchOffDelayTimer = clearTimeout(@)],
                            <<"clearTimeout", "switchOffDelayTimer", s2.switchOffDelayTimer>>)
                  ELSE s2)
  ELSE s

\* detectChromecast(), lines 105-141: a new browser with its restart timer
detectChromecast(s) ==
  Call([s EXCEPT !.browsers = @ + 1], <<"browser.start">>)

\* clientConnect(), lines 183-198: a new channel object, connect() called on it
clientConnect(s) ==
  Call([s EXCEPT !.chromecastClient = "connecting",
                 !.openOrphanClients =
                    @ + (IF s.chromecastClient \in {"connecting", "connected"} THEN 1 ELSE 0)],
       <<"client.connect", s.chromecastIp, s.chromecastPort>>)

backoff_atLimit(counter) == counter >= ReconnectBackoff

\* line 167
backoff(counter) == counter > ReconnectBackoff

scheduleReconnect_forgotten(s) == Call(s, <<"setTimeout", "reconnect">>)

\* lines 175-179: the retry timer
scheduleReconnect(s) ==
  Call(Call([s EXCEPT !.orphanReconnectTimers = @ + Orphaned(clearTimeout(s.reconnectTimer)),
                      !.reconnectTimer = "pending"],
            <<"clearTimeout", "reconnectTimer", s.reconnectTimer>>),
       <<"setTimeout", "reconnect">>)

FailuresCap == ReconnectBackoff + 3

disconnectReset_hard(s) == setDefaultProperties(setIsCasting(s, FALSE), TRUE, TRUE)

disconnectReset_castingOnly(s) == setIsCasting(s, FALSE)

disconnectReset_keepRetry(s) == setDefaultProperties(setIsCasting(s, FALSE), FALSE, FALSE)

\* lines 163-164
disconnectReset(s) == setDefaultProperties(setIsCasting(s, FALSE), FALSE, TRUE)

\* clientDisconnect(reconnect), lines 160-181
clientDisconnect(s, reconnect) ==
  LET s1 == Call(s, <<"clientDisconnect", BoolStr(reconnect)>>)
      s2 == disconnectReset(s1)
      s3 == [s2 EXCEPT !.failures = IF @ < FailuresCap THEN @ + 1 ELSE @]
  IN  IF reconnect
      THEN IF backoff(s3.reconnectCounter)
           THEN detectChromecast(s3)
           ELSE scheduleReconnect(s3)
      ELSE s2

\* line 229
currentApplicationOf(status) ==
  IF "applications" \in DOMAIN status /\ Len(status.applications) > 0
  THEN status.applications[1]
  ELSE NoApp

sessionChanged_always(sessionId, lastMonitoredApplicationStatusId) == TRUE

\* line 235
sessionChanged(sessionId, lastMonitoredApplicationStatusId) ==
  sessionId # lastMonitoredApplicationStatusId

\* processClientStatus(status), lines 225-280; joinThrows: join() raises
processClientStatus(s, status, joinThrows) ==
  LET currentApplication == currentApplicationOf(status)
      lastMonitoredApplicationStatusId ==
        IF s.castingApplication # NoApp THEN s.castingApplication.sessionId ELSE Null
      sA == IF currentApplication # NoApp
            THEN IF sessionChanged(currentApplication.sessionId,
                                   lastMonitoredApplicationStatusId)
                 THEN LET app == [currentApplication EXCEPT !.transportId = currentApplication.sessionId]
                          s1 == Call([s EXCEPT !.castingApplication = app],
                                     <<"client.join", app.sessionId, app.transportId>>)
                      IN  IF joinThrows
                          THEN clientDisconnect(s1, TRUE)
                          ELSE [s1 EXCEPT !.pendingJoins = Append(@, app.sessionId)]
                 ELSE s
            ELSE [s EXCEPT !.castingMedia = NoMedia]
      sB == IF "applications" \notin DOMAIN status THEN setIsCasting(sA, FALSE) ELSE sA
  IN  IF "volume" \in DOMAIN status /\ "level" \in DOMAIN status.volume
      THEN [sB EXCEPT !.volume = status.volume.level]
      ELSE sB

\* the getStatus callback, line 220, on a reply carrying no status:
\* processClientStatus(undefined) raises at the destructuring of line 228
getStatusFailed(s) == Call(s, <<"throw", "TypeError">>)

isPlaying_onlyPlaying(playerState) == playerState = "PLAYING"

\* line 286
isPlaying(playerState) == playerState = "PLAYING" \/ playerState = "BUFFERING"

\* line 285: status && status.playerState
hasPlayerState(status) ==
  "playerState" \in DOMAIN status /\ status.playerState # ""

\* processMediaStatus(status), lines 282-292
processMediaStatus(s, status) ==
  IF hasPlayerState(status)
  THEN setIsCasting(s, isPlaying(status.playerState))
  ELSE s

mediaCommand_unconditional(on, currentlyCasting) ==
  IF on THEN "media.play" ELSE "media.pause"

\* lines 378-384: the command setCasting sends to an attached media session
mediaCommand(on, currentlyCasting) ==
  IF on /\ ~currentlyCasting THEN "media.play"
  ELSE IF ~on /\ currentlyCasting THEN "media.pause"
  ELSE Null

\* setCasting(on, callback), lines 367-386
setCasting(s, on) ==
  LET currentlyCasting == s.isCastingStatus
      s1 == setIsCasting(s, on)
  IN  IF s1.castingMedia = NoMedia
      THEN Call(s1, <<"callback">>)
      ELSE Call(IF mediaCommand(on, currentlyCasting) # Null
                THEN Call(s1, <<mediaCommand(on, currentlyCasting)>>)
                ELSE s1,
                <<"callback">>)

\* setVolume(volume, callback), lines 346-359; throws: client.setVolume raises.
\* The level sent is volume / 100, written here in hundredths.
setVolume(s, target, throws) ==
  IF s.chromecastClient # Null
  THEN IF throws
       THEN Call(Call(s, <<"client.setVolume", "throws">>), <<"callback">>)
       ELSE Call(s, <<"client.setVolume", ToString(target), "then callback">>)
  ELSE s

nameMatches_exact(name, target) == name = target

\* line 112
nameMatches(name, target) == toLowerCase(name) = toLowerCase(target)

\* the serviceUp listener, lines 108-128
serviceUp(s, device) ==
  IF nameMatches(device.fn, s.chromecastDeviceName)
  THEN LET s1 == setDefaultProperties(s, TRUE, TRUE)
           s2 == [s1 EXCEPT !.chromecastIp = device.addresses[1],
                            !.chromecastPort = device.port,
                            !.deviceType = IF device.md = Undefined THEN "" ELSE device.md,
                            !.deviceId = device.id]
       IN  clientConnect(s2)
  ELSE s

\* the restart timer's callback, lines 131-137
restartBrowser(s) ==
  LET s1 == Call([s EXCEPT !.browsers = @ - 1], <<"browser.stop">>)
  IN  detectChromecast(clientDisconnect(s1, FALSE))

\* the retry timer's callback, lines 176-179
reconnect(s) ==
  clientConnect([s EXCEPT !.reconnectCounter = @ + 1])

\* the connect callback, lines 198-222; the sub-layers exist once the channel is up
connected(s) ==
  IF s.chromecastClient = "connecting"
  THEN Call([s EXCEPT !.reconnectCounter = 0,
                      !.chromecastClient = "connected",
                      !.failures = 0,
                      !.cancelledRetries = 0],
            <<"client.getStatus">>)
  ELSE s

\* clientError(error), lines 143-147
clientError(s) == clientDisconnect(s, TRUE)

\* the join callback, lines 251-257; a failed join passes no media handle
joined(s, join, ok) ==
  IF ok
  THEN LET s1 == Call(s, <<"media.getStatus">>)
       IN  [s1 EXCEPT !.mediaListening = TRUE,
                      !.castingMedia = [sessionId |-> join]]
  ELSE Call(s, <<"throw", "TypeError">>)

Remove(seq, i) == [j \in 1..(Len(seq) - 1) |-> IF j < i THEN seq[j] ELSE seq[j + 1]]

\* ------------------------------------------------------------------ events
\* the state the constructor leaves, lines 19-70
Init ==
  /\ chromecastDeviceName \in TargetNames
  /\ switchOffDelay \in SwitchOffDelays
  /\ chromecastIp = Null /\ chromecastPort = Null
  /\ chromecastClient = Null
  /\ isCastingStatus = FALSE
  /\ castingApplication = NoApp /\ castingMedia = NoMedia
  /\ volume = 0
  /\ deviceType = Null /\ deviceId = Null
  /\ switchOffDelayTimer = Null /\ reconnectTimer = Null
  /\ reconnectCounter = 0
  /\ orphanOffTimers = 0 /\ orphanReconnectTimers = 0 /\ openOrphanClients = 0
  /\ browsers = 1
  /\ pendingJoins = <<>>
  /\ mediaListening = FALSE
  /\ failures = 0 /\ cancelledRetries = 0
  /\ switchOn = FALSE /\ motionDetected = FALSE
  /\ last = [op |-> "constructor", arg |-> <<>>, out |-> << <<"browser.start">> >>]

\* mdns announces a device
ServiceUp ==
  \E device \in Announcements :
    LET t == serviceUp(This, device)
    IN  /\ browsers > 0
        /\ WithinBounds(t)
        /\ Becomes("serviceUp", device, t)

\* a browser's 30-minute timer fires
RestartTimer ==
  LET t == restartBrowser(This)
  IN  /\ browsers > 0
      /\ WithinBounds(t)
      /\ Becomes("restartBrowser", <<>>, t)

\* a timer fires: the one its handle names, or one no handle names any more
Fired(s, handle, orphans, which) ==
  IF which = "named"
  THEN [s EXCEPT ![handle] = "dead"]
  ELSE [s EXCEPT ![orphans] = @ - 1]

LiveTimers(handle, orphans) ==
  {w \in {"named"} : handle = "pending"} \cup {w \in {"orphan"} : orphans > 0}

\* a retry timer fires
ReconnectTimerFire ==
  \E which \in LiveTimers(reconnectTimer, orphanReconnectTimers) :
    LET t == reconnect(Fired(This, "reconnectTimer", "orphanReconnectTimers", which))
    IN  WithinBounds(t) /\ Becomes("reconnect", <<>>, t)

\* a switch-off timer fires
SwitchOffTimerFire ==
  \E which \in LiveTimers(switchOffDelayTimer, orphanOffTimers) :
    Becomes("updateMotionSensor", <<>>,
            updateMotionSensor(Fired(This, "switchOffDelayTimer", "orphanOffTimers", which)))

\* connect() of the channel held completes
ConnectCallback ==
  /\ chromecastClient \in {"connecting", "closed"}
  /\ Becomes("connected", <<>>, connected(This))

\* the open channel emits 'error'
ClientError(cap) ==
  /\ chromecastClient \in {"connecting", "connected"}
  /\ reconnectCounter < cap
  /\ LET t == clientError(This)
     IN  WithinBounds(t) /\ Becomes("clientError", <<>>, t)

\* the connection sub-layer emits 'disconnect'
ConnectionDisconnect ==
  /\ chromecastClient = "connected"
  /\ LET t == clientDisconnect(This, TRUE)
     IN  WithinBounds(t) /\ Becomes("disconnect", <<>>, t)

\* the receiver pushes a status, or answers getStatus
DeviceStatus ==
  /\ chromecastClient = "connected"
  /\ \E status \in DeviceStatuses, joinThrows \in BOOLEAN :
       LET t == processClientStatus(This, status, joinThrows)
       IN  /\ joinThrows => <<"clientDisconnect", "true">> \in {t.out[i] : i \in DOMAIN t.out}
           /\ WithinBounds(t)
           /\ Becomes("processClientStatus", status, t)

\* the explicit status query of line 220 fails: its callback gets no status
GetStatusFailed ==
  /\ chromecastClient = "connected"
  /\ Becomes("getStatus", Undefined, getStatusFailed(This))

\* a join completes
JoinCallback ==
  \E i \in DOMAIN pendingJoins, ok \in BOOLEAN :
    Becomes("joined", <<>>,
            joined([This EXCEPT !.pendingJoins = Remove(@, i)], pendingJoins[i], ok))

\* an attached media session pushes a status, or answers getStatus
MediaStatus ==
  /\ mediaListening
  /\ \E status \in MediaReplies :
       Becomes("processMediaStatus", status, processMediaStatus(This, status))

\* the accessory framework sets Characteristic.On
SetCasting ==
  \E on \in BOOLEAN :
    LET t == setCasting(This, on)
    IN  /\ WithinBounds(t)
        /\ Becomes("setCasting", on, t)

\* the accessory framework sets Characteristic.Volume
SetVolume ==
  \E target \in VolumeTargets, throws \in BOOLEAN :
    LET t == setVolume(This, target, throws)
    IN  /\ throws => chromecastClient # Null
        /\ WithinBounds(t)
        /\ Becomes("setVolume", target, t)

Uncapped == ReconnectBackoff + 2

Next ==
  \/ ServiceUp
  \/ RestartTimer
  \/ ReconnectTimerFire
  \/ SwitchOffTimerFire
  \/ ConnectCallback
  \/ ClientError(MaxRetries)
  \/ ConnectionDisconnect
  \/ DeviceStatus
  \/ GetStatusFailed
  \/ JoinCallback
  \/ MediaStatus
  \/ SetCasting
  \/ SetVolume

Spec == Init /\ [][Next]_vars

\* The connection supervisor on its own: discovery, channel events and timers,
\* with the retry counter running its whole range.
InitReconnect == Init /\ switchOffDelay = 0

NextReconnect ==
  \/ ServiceUp
  \/ RestartTimer
  \/ ReconnectTimerFire
  \/ ConnectCallback
  \/ ClientError(Uncapped)
  \/ ConnectionDisconnect

SpecReconnect == InitReconnect /\ [][NextReconnect]_vars

\* A timer that stays pending fires.
LiveReconnect == SpecReconnect /\ WF_vars(ReconnectTimerFire)

\* ------------------------------------------------------------------ claims
\* the calls the last handler made
Calls == {last.out[i] : i \in DOMAIN last.out}
CallsNext == {last'.out[i] : i \in DOMAIN last'.out}
DisconnectedNext == \E c \in CallsNext : c[1] = "clientDisconnect"
MatchedNext == last'.op = "serviceUp" /\ last'.out # <<>>

\* C1: isCasting starts false; a media status carrying a player state sets it
\* to (PLAYING or BUFFERING), a device status lacking the applications field
\* sets it to false, setCasting(on) sets it to on, and every other step that
\* is neither a disconnect nor a discovery match leaves it as it was.
CastingFollowsSignals ==
  /\ ~isCastingStatus
  /\ [][IF DisconnectedNext \/ MatchedNext
        THEN TRUE
        ELSE IF last'.op = "processMediaStatus" /\ "playerState" \in DOMAIN last'.arg
        THEN isCastingStatus' = (last'.arg.playerState \in {"PLAYING", "BUFFERING"})
        ELSE IF last'.op = "processClientStatus" /\ "applications" \notin DOMAIN last'.arg
        THEN isCastingStatus' = FALSE
        ELSE IF last'.op = "setCasting"
        THEN isCastingStatus' = last'.arg
        ELSE isCastingStatus' = isCastingStatus]_vars

\* C1 witness: a BUFFERING media status has just turned a paused-by-command
\* state back to casting.
BufferingSetsCasting ==
  /\ last.op = "processMediaStatus"
  /\ "playerState" \in DOMAIN last.arg
  /\ last.arg.playerState = "BUFFERING"
  /\ <<"switch.On", "true">> \in Calls
  /\ isCastingStatus

\* what a handler that called clientDisconnect(true) went on to do
FailedNext == <<"clientDisconnect", "true">> \in CallsNext
RetryScheduledNext == <<"setTimeout", "reconnect">> \in CallsNext
RediscoveryNext == <<"browser.start">> \in CallsNext
Failed == <<"clientDisconnect", "true">> \in Calls
RetryScheduled == <<"setTimeout", "reconnect">> \in Calls
Rediscovery == <<"browser.start">> \in Calls

\* C2 as stated: of the consecutive clientDisconnect(true) calls since the last
\* successful connection, each up to the 151st schedules a retry and the 152nd
\* starts discovery instead.
ReconnectBoundByFailures ==
  Failed =>
    /\ failures <= ReconnectBackoff + 1 => RetryScheduled /\ ~Rediscovery
    /\ failures = ReconnectBackoff + 2 => Rediscovery /\ ~RetryScheduled

\* C2 amended: clientDisconnect(true) starts discovery exactly when the counter
\* exceeds 150 and schedules a retry otherwise; the counter changes only by a
\* retry timer adding one or a successful connection zeroing it; and as long as
\* no pending retry was superseded since the last success, the failures up to
\* the 151st schedule a retry and the 152nd starts discovery.
ReconnectBoundByCounter ==
  [][/\ FailedNext =>
          /\ RediscoveryNext <=> reconnectCounter' > ReconnectBackoff
          /\ RetryScheduledNext <=> ~RediscoveryNext
          /\ cancelledRetries' = 0 =>
               /\ failures' <= ReconnectBackoff + 1 => RetryScheduledNext
               /\ failures' = ReconnectBackoff + 2 => RediscoveryNext
     /\ reconnectCounter' # reconnectCounter =>
          \/ last'.op = "reconnect" /\ reconnectCounter' = reconnectCounter + 1
          \/ last'.op = "connected" /\ reconnectCounter' = 0]_vars

\* C2 witness: the 152nd failure in a row, every retry having fired, starts discovery.
BackoffAfter152Failures ==
  /\ Failed /\ Rediscovery /\ ~RetryScheduled
  /\ failures = ReconnectBackoff + 2
  /\ cancelledRetries = 0
  /\ reconnectCounter = ReconnectBackoff + 1

\* C3: once the channel has reported an error or a disconnect, connect() is
\* called again or a browser is started (given that a pending retry timer
\* fires); and at no time is the channel down with no retry timer live and no
\* browser running.
ChannelLost == last.op \in {"clientError", "disconnect"}
RecoveryStarted == \E c \in Calls : c[1] \in {"client.connect", "browser.start"}
RecoversFromLoss ==
  /\ ChannelLost ~> RecoveryStarted
  /\ [](chromecastClient \in {"connecting", "connected"}
        \/ reconnectTimer = "pending" \/ orphanReconnectTimers > 0
        \/ browsers > 0)

\* C3 witness: the channel has failed, it is closed and the retry is pending.
LossAwaitingRetry ==
  /\ ChannelLost
  /\ chromecastClient = "closed"
  /\ reconnectTimer = "pending"
  /\ ~RecoveryStarted

\* C4 as stated: when a handler has called clientDisconnect, casting is false,
\* address and port are null, no application or media session is tracked, and
\* the only retry timer live is one this call scheduled.
Disconnected == \E c \in Calls : c[1] = "clientDisconnect"
DisconnectClearsAddress ==
  Disconnected =>
    /\ ~isCastingStatus
    /\ chromecastIp = Null /\ chromecastPort = Null
    /\ castingApplication = NoApp /\ castingMedia = NoMedia
    /\ orphanReconnectTimers = 0
    /\ reconnectTimer = "pending" => RetryScheduled

\* C4 amended: clientDisconnect, with either argument, leaves casting false, no
\* application or media session tracked and no earlier retry timer live; the
\* stored address and port stay as they were.
DisconnectKeepsAddress ==
  [][DisconnectedNext =>
       /\ ~isCastingStatus'
       /\ castingApplication' = NoApp /\ castingMedia' = NoMedia
       /\ orphanReconnectTimers' = 0
       /\ reconnectTimer' = "pending" => RetryScheduledNext
       /\ reconnectTimer' = Null \/ RetryScheduledNext
       /\ chromecastIp' = chromecastIp /\ chromecastPort' = chromecastPort]_vars

\* C4 witness: the restart timer's clientDisconnect(false) has cancelled a
\* pending retry and the address is still stored.
RestartCancelledRetry ==
  /\ last.op = "restartBrowser"
  /\ <<"clearTimeout", "reconnectTimer", "pending">> \in Calls
  /\ reconnectTimer = Null
  /\ chromecastIp # Null /\ chromecastPort # Null

\* two friendly names that differ at most in the case of their letters
SameLetter(a, b) ==
  \/ a = b
  \/ a \in DOMAIN UpperOf /\ UpperOf[a] = b
  \/ b \in DOMAIN UpperOf /\ UpperOf[b] = a
EqualIgnoringCase(m, n) ==
  Len(m) = Len(n) /\ \A i \in DOMAIN m : SameLetter(m[i], n[i])

\* C5: an announcement whose friendly name equals the configured name up to
\* letter case stores the announced address and port and calls connect() with
\* them; any other announcement changes nothing and calls nothing.
AnnouncementMatchConnects ==
  [][last'.op = "serviceUp" =>
       IF EqualIgnoringCase(last'.arg.fn, chromecastDeviceName)
       THEN /\ chromecastIp' = last'.arg.addresses[1]
            /\ chromecastPort' = last'.arg.port
            /\ <<"client.connect", last'.arg.addresses[1], last'.arg.port>> \in CallsNext
       ELSE /\ UNCHANGED progVars
            /\ last'.out = <<>>]_vars

\* C5 witness: a name differing from the configured one in case only has been
\* announced from a second address, and connect() was called with it.
MatchedInOtherCase ==
  /\ last.op = "serviceUp"
  /\ last.arg.fn # chromecastDeviceName
  /\ last.arg.addresses[1] = "10.0.0.7"
  /\ chromecastIp = "10.0.0.7" /\ chromecastPort = "8010"
  /\ <<"client.connect", "10.0.0.7", "8010">> \in Calls

\* C6: a device status whose first application has a session identifier other
\* than the tracked one (or with none tracked) replaces the tracked application
\* by it, its transport identifier overwritten by the session identifier, and
\* issues a join of it; one repeating the tracked identifier leaves the tracked
\* application alone and issues no join.
JoinsNext == {c \in CallsNext : c[1] = "client.join"}
SessionReplacedOnChange ==
  [][(/\ last'.op = "processClientStatus"
      /\ "applications" \in DOMAIN last'.arg
      /\ last'.arg.applications # <<>>) =>
       LET id == last'.arg.applications[1].sessionId
           tracked == [sessionId |-> id, transportId |-> id]
       IN  IF castingApplication = NoApp \/ castingApplication.sessionId # id
           THEN /\ JoinsNext = {<<"client.join", id, id>>}
                /\ castingApplication' = tracked \/ DisconnectedNext
                /\ ~DisconnectedNext => id \in {pendingJoins'[i] : i \in DOMAIN pendingJoins'}
           ELSE /\ JoinsNext = {}
                /\ castingApplication' = castingApplication]_vars

\* C6 witness: session B is tracked with its media attached, and a status
\* listing B first again has replaced nothing and joined nothing.
RepeatedSessionNotRejoined ==
  /\ last.op = "processClientStatus"
  /\ "applications" \in DOMAIN last.arg
  /\ last.arg.applications # <<>>
  /\ last.arg.applications[1].sessionId = "B"
  /\ castingApplication = [sessionId |-> "B", transportId |-> "B"]
  /\ castingMedia = [sessionId |-> "B"]
  /\ \A c \in Calls : c[1] # "client.join"

\* C7: setCasting(on, callback) calls the callback once and leaves isCasting
\* equal to on; with no media session attached it sends nothing; with one
\* attached it sends one play when going from false to true, one pause when
\* going from true to false, and nothing when on is the prior state.
CallbacksNext == {i \in DOMAIN last'.out : last'.out[i] = <<"callback">>}
CommandsNext == {i \in DOMAIN last'.out : last'.out[i][1] \in {"media.play", "media.pause"}}
SetCastingCommands ==
  [][last'.op = "setCasting" =>
       LET on == last'.arg
       IN  /\ Cardinality(CallbacksNext) = 1
           /\ isCastingStatus' = on
           /\ castingMedia = NoMedia => CommandsNext = {}
           /\ castingMedia # NoMedia =>
                IF on /\ ~isCastingStatus
                THEN Cardinality(CommandsNext) = 1 /\ <<"media.play">> \in CallsNext
                ELSE IF ~on /\ isCastingStatus
                THEN Cardinality(CommandsNext) = 1 /\ <<"media.pause">> \in CallsNext
                ELSE CommandsNext = {}]_vars

\* C7 witness: with a media session attached, setCasting(false) has paused it.
SetCastingPaused ==
  /\ last.op = "setCasting"
  /\ last.arg = FALSE
  /\ castingMedia # NoMedia
  /\ <<"media.pause">> \in Calls
  /\ <<"callback">> \in Calls
  /\ ~isCastingStatus

\* C8 as stated: setVolume always gets the callback called, at once or on the
\* command's completion: with no channel object it sends nothing and calls
\* back, and when the command throws it calls back.
CalledBack ==
  \E c \in Calls :
    \/ c = <<"callback">>
    \/ c[1] = "client.setVolume" /\ c[Len(c)] = "then callback"
SetVolumeAlwaysCallsBack ==
  last.op = "setVolume" =>
    /\ CalledBack
    /\ chromecastClient = Null => \A c \in Calls : c[1] # "client.setVolume"

\* C9 as stated, for a switch-off delay above zero: going from casting to not
\* casting through setIsCasting updates the switch at once and only schedules
\* the motion update; going from not casting to casting updates both at once
\* and leaves no delayed update live to fire later.
SwitchOffTimerLive == switchOffDelayTimer = "pending" \/ orphanOffTimers > 0
DelayedUpdateCancelled ==
  [][switchOffDelay > 0 =>
       /\ (isCastingStatus /\ ~isCastingStatus' /\ <<"switch.On", "false">> \in CallsNext) =>
            /\ ~switchOn'
            /\ <<"setTimeout", "updateMotionSensor">> \in CallsNext
            /\ \A c \in CallsNext : c[1] # "motion.MotionDetected"
            /\ motionDetected' = motionDetected
       /\ (~isCastingStatus /\ isCastingStatus') =>
            /\ switchOn' /\ motionDetected'
            /\ <<"switch.On", "true">> \in CallsNext
            /\ <<"motion.MotionDetected", "true">> \in CallsNext
            /\ ~SwitchOffTimerLive']_vars

\* C10 as stated: a disconnect, and the reconnect after it, leave isCasting and
\* the stored volume as they were.
ReconnectSteps == {"reconnect", "connected"}
CastingStateSurvivesDisconnect ==
  [][(DisconnectedNext \/ last'.op \in ReconnectSteps) =>
       isCastingStatus' = isCastingStatus /\ volume' = volume]_vars

\* C10 amended: the disconnect itself resets CastingState (isCasting false,
\* volume 0, the volume then taking the level of the status whose join failed,
\* if that is what disconnected); the reconnect after it (retry timer, connect
\* callback) leaves it unchanged; and apart from a disconnect or a discovery
\* match only a status push or a setCasting command changes it.
LevelNext ==
  IF /\ last'.op = "processClientStatus"
     /\ "volume" \in DOMAIN last'.arg
     /\ "level" \in DOMAIN last'.arg.volume
  THEN last'.arg.volume.level
  ELSE 0
CastingStateResetByDisconnect ==
  [][/\ DisconnectedNext => ~isCastingStatus' /\ volume' = LevelNext
     /\ last'.op \in ReconnectSteps =>
          isCastingStatus' = isCastingStatus /\ volume' = volume
     /\ (isCastingStatus' # isCastingStatus \/ volume' # volume) =>
          \/ DisconnectedNext \/ MatchedNext
          \/ last'.op \in {"processClientStatus", "processMediaStatus", "setCasting"}]_vars

\* C10 witness: a channel error has reset a casting state of true at volume 50.
DisconnectResetCasting ==
  /\ last.op = "clientError"
  /\ <<"switch.On", "false">> \in Calls
  /\ ~isCastingStatus /\ volume = 0
  /\ chromecastIp # Null

\* C11: no channel object is ever replaced while it is still open, and every
\* connect(), from a discovery match or from a fired retry timer, is called
\* when the channel object held before has been closed, by this handler
\* ahead of the connect() or by an earlier one.
ClosedBeforeConnectNext ==
  \A i \in DOMAIN last'.out :
    last'.out[i][1] = "client.connect" =>
      \/ chromecastClient \in {Null, "closed"}
      \/ \E j \in 1..(i - 1) : last'.out[j] = <<"client.close">>
PendingRetries ==
  (IF reconnectTimer = "pending" THEN 1 ELSE 0) + orphanReconnectTimers
OneRetryTimer ==
  /\ [](PendingRetries <= 1)
  /\ [][/\ RetryScheduledNext => reconnectTimer' = "pending" /\ orphanReconnectTimers' = 0
        /\ MatchedNext => PendingRetries' = 0
        /\ <<"clientDisconnect", "false">> \in CallsNext => PendingRetries' = 0]_vars

\* C12 witness: a discovery match has cancelled the retry that was pending.
MatchCancelledRetry ==
  /\ last.op = "serviceUp"
  /\ <<"clearTimeout", "reconnectTimer", "pending">> \in Calls
  /\ PendingRetries = 0
  /\ chromecastClient = "connecting"

\* C13 as stated: when a matching announcement has just been processed, the
\* reconnect counter is 0, whatever it was before.
Matched == last.op = "serviceUp" /\ last.out # <<>>
MatchZeroesCounter == Matched => reconnectCounter = 0

\* C14 as stated: when a device status reporting no applications (the list
\* empty or absent) has just been processed, neither an application session
\* nor a media session is tracked, and a status listing an application that
\* comes next is joined, whatever its session identifier.
ReportedNoApplications ==
  /\ last.op = "processClientStatus"
  /\ "applications" \in DOMAIN last.arg => last.arg.applications = <<>>
NoApplicationsClearsSession ==
  /\ [](ReportedNoApplications => castingApplication = NoApp /\ castingMedia = NoMedia)
  /\ [][(/\ ReportedNoApplications
         /\ last'.op = "processClientStatus"
         /\ ~ReportedNoApplications') => JoinsNext # {}]_vars

\* C15 as stated: in every state at most one delayed motion update is live.
PendingSwitchOffs ==
  (IF switchOffDelayTimer = "pending" THEN 1 ELSE 0) + orphanOffTimers
OneSwitchOffTimer == PendingSwitchOffs <= 1

\* C16 as stated: no handler lets an exception escape, a failed status query
\* included, and a join completion either attaches the media session or ends
\* in clientDisconnect(true).
JoinFailureDisconnects ==
  /\ \A c \in Calls : c[1] # "throw"
  /\ last.op = "joined" => <<"media.getStatus">> \in Calls \/ Failed

\* C17 as stated: between handlers, the value last written to the switch's On
\* characteristic is the internal casting state.
SwitchShowsCasting == switchOn = isCastingStatus

\* C18 as stated: in every state at most one mdns browser is running, and
\* with it at most one restart timer pending (each browser runs from its
\* start until its own restart timer stops it).
OneDiscoveryScan == browsers <= 1

\* C19 as stated: an attached media session is always that of the tracked
\* application, and a join completion attaches its media handle only if the
\* join was of the application still tracked and no status reporting no
\* applications has come since.
AttachedNext == last'.op = "joined" /\ <<"media.getStatus">> \in CallsNext
MediaOfTrackedApplication ==
  /\ [](castingMedia # NoMedia =>
          castingApplication # NoApp /\ castingMedia.sessionId = castingApplication.sessionId)
  /\ [][AttachedNext =>
          /\ ~ReportedNoApplications
          /\ castingMedia'.sessionId = castingApplication.sessionId]_vars

\* C20 as stated: while an address and a port are stored, the device type and
\* the device id are set, and they are the ones the latest matching
\* announcement carried: a match records them, and no other step that keeps
\* the address changes them.
AddressStored == chromecastIp # Null /\ chromecastPort # Null
IdentityKeptWithAddress ==
  /\ [](AddressStored => deviceType # Null /\ deviceId # Null)
  /\ [][IF MatchedNext
        THEN deviceId' = last'.arg.id
        ELSE AddressStored' => deviceType' = deviceType /\ deviceId' = deviceId]_vars

====
